---- MODULE Spec2Model ----
(***************************************************************************)
(* Model of examples/QuadrupedControl/QuadrupedServoControl.cpp: the index *)
(* transformation of a canonical leg posture (direction rotation + mirror  *)
(* reflection), the staging buffer sServoNextPositionArray, and the        *)
(* cooperative blocking move loops that poll the IR input and return early *)
(* when a stop is requested.                                               *)
(***************************************************************************)
EXTENDS Integers, Sequences, FiniteSets

VARIABLES
    sServoNextPositionArray, \* staging buffer: next target angle per servo
    servoAngle,              \* current angle of each servo (ServoEasing state)
    servoStart,              \* angle each servo had when its last move was started
    servoTarget,             \* end angle of each servo's last started move
    stopRequested,           \* the stop-requested condition tested by RETURN_IF_STOP
    pc,                      \* position of the single thread of control
    tAllStopped,             \* value returned by the last updateAllServos() / update()
    movedServo,              \* servo of a running single-servo move, NoServo otherwise
    lastEvent,               \* history: last step the move loop has taken
    nCalls,                  \* history: number of staging calls made so far
    call,                    \* history: arguments and writes of the last staging call
    writeLog,                \* history: every write made to the staging buffer, in order
    indexChain,              \* history: results of chained transformOneServoIndex calls
    maskCall                 \* history: argument and result of the last getMirrorXorMask call

vars == <<sServoNextPositionArray, servoAngle, servoStart, servoTarget,
          stopRequested, pc, tAllStopped, movedServo, lastEvent,
          nCalls, call, writeLog, indexChain, maskCall>>

servoVars == <<servoAngle, servoStart, servoTarget>>
loopVars == <<stopRequested, pc, tAllStopped, movedServo, lastEvent>>
histVars == <<nCalls, call, writeLog, indexChain, maskCall>>

(***************************************************************************)
(* Program constants.                                                      *)
(***************************************************************************)
NUMBER_OF_SERVOS == 8
SERVOS_PER_LEG == 2
LIFT_SERVO_OFFSET == 1
FRONT_LEFT_PIVOT == 0
BACK_LEFT_PIVOT == 2
BACK_RIGHT_PIVOT == 4
FRONT_RIGHT_PIVOT == 6
MOVE_DIRECTION_FORWARD == 0
MOVE_DIRECTION_LEFT == 1
MOVE_DIRECTION_BACKWARD == 2
MOVE_DIRECTION_RIGHT == 3
MOVE_DIRECTION_SIDE_MASK == 1
StartAngle == 90
Uint8Max == 255

(***************************************************************************)
(* Bounds of the model.                                                    *)
(***************************************************************************)
MaxStagingCalls == 2   \* staging calls in the staging specification
MaxChain == 3          \* chained transformOneServoIndex calls
StepDegrees == 60      \* degrees a servo advances in one 20 ms tick

Servos == 0 .. (NUMBER_OF_SERVOS - 1)
NoServo == NUMBER_OF_SERVOS
Directions == {MOVE_DIRECTION_FORWARD, MOVE_DIRECTION_LEFT,
               MOVE_DIRECTION_BACKWARD, MOVE_DIRECTION_RIGHT}
PivotRoles == <<FRONT_LEFT_PIVOT, BACK_LEFT_PIVOT, BACK_RIGHT_PIVOT, FRONT_RIGHT_PIVOT>>

(***************************************************************************)
(* Inputs.  A posture is <<aFLP, aBLP, aBRP, aFRP, aFLL, aBLL, aBRL, aFRL>>.*)
(***************************************************************************)
TestPosture == <<180, 1, 135, 30, 111, 0, 0, 0>>
PivotAngles == {1, 30, 135, 180}
LiftPostures == {<<111, 0, 0, 0>>, <<40, 60, 80, 100>>, <<60, 60, 60, 60>>}
Postures == {pv \o lf : pv \in [1 .. 4 -> PivotAngles], lf \in LiftPostures}
PivotPostures == [1 .. 4 -> PivotAngles]
MovePostures == {TestPosture}
MovePivots == {<<90, 90, 90, 90>>}
MoveServos == {FRONT_LEFT_PIVOT, FRONT_LEFT_PIVOT + LIFT_SERVO_OFFSET}
MoveDegrees == {0}
StagePostures == {TestPosture}
StagePivots == {<<10, 20, 30, 40>>}
ZeroBuffer == [i \in Servos |-> 0]
PriorBuffer == [i \in Servos |-> 15 + 10 * i]

(***************************************************************************)
(* Bit operations on uint8_t values.                                       *)
(***************************************************************************)
RECURSIVE BitXor(_, _)
BitXor(a, b) ==
    IF a = 0 /\ b = 0 THEN 0
    ELSE (((a % 2) + (b % 2)) % 2) + 2 * BitXor(a \div 2, b \div 2)

RECURSIVE BitAnd(_, _)
BitAnd(a, b) ==
    IF a = 0 \/ b = 0 THEN 0
    ELSE ((a % 2) * (b % 2)) + 2 * BitAnd(a \div 2, b \div 2)

Uint8(x) == x % (Uint8Max + 1)

(***************************************************************************)
(* getMirrorXorMask                                                        *)
(***************************************************************************)
\* Mutant: the two masks the wrong way round.
getMirrorXorMask_Swapped(aDirection) ==
    IF BitAnd(aDirection, MOVE_DIRECTION_SIDE_MASK) # 0 THEN 6 ELSE 2

getMirrorXorMask(aDirection) ==
    IF BitAnd(aDirection, MOVE_DIRECTION_SIDE_MASK) # 0 THEN 2 ELSE 6

(***************************************************************************)
(* transformOneServoIndex                                                  *)
(***************************************************************************)
\* Mutant: the direction is added as a servo count, not as a leg count.
transformOneServoIndex_NoLegFactor(aServoIndexToTransform, aDirection, doMirror) ==
    LET tXorToGetMirroredIndex == IF doMirror THEN getMirrorXorMask(aDirection) ELSE 0
    IN  Uint8(BitXor((aServoIndexToTransform + aDirection) % NUMBER_OF_SERVOS,
                     tXorToGetMirroredIndex))

transformOneServoIndex(aServoIndexToTransform, aDirection, doMirror) ==
    LET tXorToGetMirroredIndex == IF doMirror THEN getMirrorXorMask(aDirection) ELSE 0
    IN  Uint8(BitXor((aServoIndexToTransform + (aDirection * SERVOS_PER_LEG)) % NUMBER_OF_SERVOS,
                     tXorToGetMirroredIndex))

(***************************************************************************)
(* transformAndSetAllServos: index and angle of one leg, and the writes of  *)
(* one call <<index, value>> in program order.                             *)
(***************************************************************************)
\* Mutant: the rotated index is not reduced modulo the number of servos.
AllServosIndex_NoModulo(aPivot, aDirection, doMirror) ==
    LET tIndexToAdd == Uint8(aDirection * SERVOS_PER_LEG)
        tXorToGetMirroredIndex == IF doMirror THEN getMirrorXorMask(aDirection) ELSE 0
    IN  Uint8(BitXor(aPivot + tIndexToAdd, tXorToGetMirroredIndex))

\* Mutant: the mirror mask is applied before the rotation.
AllServosIndex_MirrorFirst(aPivot, aDirection, doMirror) ==
    LET tIndexToAdd == Uint8(aDirection * SERVOS_PER_LEG)
        tXorToGetMirroredIndex == IF doMirror THEN getMirrorXorMask(aDirection) ELSE 0
    IN  Uint8((BitXor(aPivot, tXorToGetMirroredIndex) + tIndexToAdd) % NUMBER_OF_SERVOS)

AllServosIndex(aPivot, aDirection, doMirror) ==
    LET tIndexToAdd == Uint8(aDirection * SERVOS_PER_LEG)
        tXorToGetMirroredIndex == IF doMirror THEN getMirrorXorMask(aDirection) ELSE 0
    IN  Uint8(BitXor((aPivot + tIndexToAdd) % NUMBER_OF_SERVOS, tXorToGetMirroredIndex))

AllServosPivotAngle(aAngle, doMirror) ==
    LET doInvert == doMirror
    IN  IF doInvert THEN 180 - aAngle ELSE aAngle

\* Mutant: mirroring inverts the lift angles too.
AllServosLiftAngle_Inverted(aAngle, doMirror) ==
    IF doMirror THEN 180 - aAngle ELSE aAngle

AllServosLiftAngle(aAngle, doMirror) == aAngle

AllServosWrites(aPosture, aDirection, doMirror) ==
    LET tFL == AllServosIndex(FRONT_LEFT_PIVOT, aDirection, doMirror)
        tBL == AllServosIndex(BACK_LEFT_PIVOT, aDirection, doMirror)
        tBR == AllServosIndex(BACK_RIGHT_PIVOT, aDirection, doMirror)
        tFR == AllServosIndex(FRONT_RIGHT_PIVOT, aDirection, doMirror)
    IN  << <<tFL, AllServosPivotAngle(aPosture[1], doMirror)>>,
           <<tFL + LIFT_SERVO_OFFSET, AllServosLiftAngle(aPosture[5], doMirror)>>,
           <<tBL, AllServosPivotAngle(aPosture[2], doMirror)>>,
           <<tBL + LIFT_SERVO_OFFSET, AllServosLiftAngle(aPosture[6], doMirror)>>,
           <<tBR, AllServosPivotAngle(aPosture[3], doMirror)>>,
           <<tBR + LIFT_SERVO_OFFSET, AllServosLiftAngle(aPosture[7], doMirror)>>,
           <<tFR, AllServosPivotAngle(aPosture[4], doMirror)>>,
           <<tFR + LIFT_SERVO_OFFSET, AllServosLiftAngle(aPosture[8], doMirror)>> >>

(***************************************************************************)
(* transformAndSetPivotServos: the same arithmetic, written out a second   *)
(* time in the source, for the four pivot slots only.                      *)
(***************************************************************************)
PivotServosIndex(aPivot, aDirection, doMirror) ==
    LET tIndexToAdd == Uint8(aDirection * SERVOS_PER_LEG)
        tXorToGetMirroredIndex == IF doMirror THEN getMirrorXorMask(aDirection) ELSE 0
    IN  Uint8(BitXor((aPivot + tIndexToAdd) % NUMBER_OF_SERVOS, tXorToGetMirroredIndex))

\* Mutant: the pivot-only path forgets to invert.
PivotServosPivotAngle_NoInvert(aAngle, doMirror) == aAngle

PivotServosPivotAngle(aAngle, doMirror) ==
    LET doInvert == doMirror
    IN  IF doInvert THEN 180 - aAngle ELSE aAngle

PivotServosWrites(aPivots, aDirection, doMirror) ==
    << <<PivotServosIndex(FRONT_LEFT_PIVOT, aDirection, doMirror),
         PivotServosPivotAngle(aPivots[1], doMirror)>>,
       <<PivotServosIndex(BACK_LEFT_PIVOT, aDirection, doMirror),
         PivotServosPivotAngle(aPivots[2], doMirror)>>,
       <<PivotServosIndex(BACK_RIGHT_PIVOT, aDirection, doMirror),
         PivotServosPivotAngle(aPivots[3], doMirror)>>,
       <<PivotServosIndex(FRONT_RIGHT_PIVOT, aDirection, doMirror),
         PivotServosPivotAngle(aPivots[4], doMirror)>> >>

(***************************************************************************)
(* The staging buffer.                                                     *)
(***************************************************************************)
\* Mutant: a write adds to the pending value of the slot.
StoreSlot_Accumulate(aBuffer, aIndex, aValue) ==
    [aBuffer EXCEPT ![aIndex] = aBuffer[aIndex] + aValue]

\* sServoNextPositionArray[aIndex] = aValue
StoreSlot(aBuffer, aIndex, aValue) == [aBuffer EXCEPT ![aIndex] = aValue]

\* The buffer after a sequence of writes has been made in program order.
RECURSIVE StoreWrites(_, _)
StoreWrites(aBuffer, aWrites) ==
    IF aWrites = <<>> THEN aBuffer
    ELSE StoreWrites(StoreSlot(aBuffer, Head(aWrites)[1], Head(aWrites)[2]), Tail(aWrites))

(***************************************************************************)
(* The servo library as the move loops use it.                             *)
(***************************************************************************)
\* One tick of a servo's interpolation towards its end angle.
StepToward(aAngle, aTarget) ==
    IF aAngle < aTarget
    THEN (IF aTarget - aAngle <= StepDegrees THEN aTarget ELSE aAngle + StepDegrees)
    ELSE (IF aAngle - aTarget <= StepDegrees THEN aTarget ELSE aAngle - StepDegrees)

\* The angles after update() has been called for the servos aServos: each
\* moves on by the time that has passed since the last call, which may be too
\* short to change any angle (aAdvanced = FALSE).
UpdatedAngles(aServos, aAdvanced) ==
    [i \in Servos |-> IF aAdvanced /\ i \in aServos
                      THEN StepToward(servoAngle[i], servoTarget[i])
                      ELSE servoAngle[i]]

\* What update() returns for the servos aServos: all have reached their end angle.
ReachedTarget(aServos, aAngles) == \A i \in aServos : aAngles[i] = servoTarget[i]

\* The stop condition after a poll of the IR input that found aStopCommand.
PolledStop(aStopCommand) == stopRequested \/ aStopCommand

\* setEaseToForAllServos(); synchronizeAllServosAndStartInterrupt(false):
\* every servo starts a move from where it is to its staged angle.
SetEaseToForAllServos(aBuffer) ==
    /\ servoStart' = servoAngle
    /\ servoTarget' = aBuffer
    /\ UNCHANGED servoAngle

\* Mutant: a while loop, which updates the servos before the first poll.
synchronizeMoveAllServosAndCheckInputAndWait_UpdateFirst(aBuffer) ==
    /\ SetEaseToForAllServos(aBuffer)
    /\ pc' = "update"
    /\ movedServo' = NoServo
    /\ lastEvent' = "start"
    /\ UNCHANGED <<stopRequested, tAllStopped>>

\* synchronizeMoveAllServosAndCheckInputAndWait up to the entry of its loop.
synchronizeMoveAllServosAndCheckInputAndWait(aBuffer) ==
    /\ SetEaseToForAllServos(aBuffer)
    /\ pc' = "poll"
    /\ movedServo' = NoServo
    /\ lastEvent' = "start"
    /\ UNCHANGED <<stopRequested, tAllStopped>>

(***************************************************************************)
(* The staging calls.                                                      *)
(***************************************************************************)
transformAndSetAllServos(aPosture, aDirection, doMirror, aDoMove) ==
    /\ pc = "idle"
    /\ sServoNextPositionArray' =
           StoreWrites(sServoNextPositionArray, AllServosWrites(aPosture, aDirection, doMirror))
    /\ IF aDoMove
       THEN synchronizeMoveAllServosAndCheckInputAndWait(sServoNextPositionArray')
       ELSE UNCHANGED <<servoVars, loopVars>>

transformAndSetPivotServos(aPivots, aDirection, doMirror, aDoMove) ==
    /\ pc = "idle"
    /\ sServoNextPositionArray' =
           StoreWrites(sServoNextPositionArray, PivotServosWrites(aPivots, aDirection, doMirror))
    /\ IF aDoMove
       THEN synchronizeMoveAllServosAndCheckInputAndWait(sServoNextPositionArray')
       ELSE UNCHANGED <<servoVars, loopVars>>

(***************************************************************************)
(* The move loops.                                                         *)
(***************************************************************************)
\* startEaseTo(aDegree, aDegreesPerSecond, false) of one servo.
StartEaseTo(aServoIndex, aDegree) ==
    /\ servoStart' = [servoStart EXCEPT ![aServoIndex] = servoAngle[aServoIndex]]
    /\ servoTarget' = [servoTarget EXCEPT ![aServoIndex] = aDegree]
    /\ UNCHANGED servoAngle

\* moveOneServoAndCheckInputAndWait up to the entry of its loop.
moveOneServoAndCheckInputAndWait(aServoIndex, aDegree) ==
    /\ pc = "idle"
    /\ StartEaseTo(aServoIndex, aDegree)
    /\ pc' = "poll"
    /\ movedServo' = aServoIndex
    /\ lastEvent' = "start"
    /\ UNCHANGED <<sServoNextPositionArray, stopRequested, tAllStopped>>

\* checkIRInput(): the poll may find a stop command and set the stop condition.
checkIRInput(aStopCommand) ==
    /\ pc = "poll"
    /\ stopRequested' = PolledStop(aStopCommand)
    /\ pc' = "test"
    /\ lastEvent' = "poll"
    /\ UNCHANGED <<sServoNextPositionArray, servoVars, tAllStopped, movedServo>>

\* Mutant: a stop sets every servo to its end angle before returning.
ReturnIfStop_SnapToTarget ==
    /\ pc = "test"
    /\ lastEvent' = "test"
    /\ IF stopRequested
       THEN pc' = "idle" /\ movedServo' = NoServo /\ servoAngle' = servoTarget
       ELSE pc' = "update" /\ UNCHANGED <<movedServo, servoAngle>>
    /\ UNCHANGED <<sServoNextPositionArray, servoStart, servoTarget,
                   stopRequested, tAllStopped>>

\* RETURN_IF_STOP
ReturnIfStop ==
    /\ pc = "test"
    /\ lastEvent' = "test"
    /\ IF stopRequested
       THEN pc' = "idle" /\ movedServo' = NoServo
       ELSE pc' = "update" /\ UNCHANGED movedServo
    /\ UNCHANGED <<sServoNextPositionArray, servoVars, stopRequested, tAllStopped>>

\* delay(20 ms); updateAllServos()
updateAllServos(aAdvanced) ==
    /\ pc = "update"
    /\ movedServo = NoServo
    /\ servoAngle' = UpdatedAngles(Servos, aAdvanced)
    /\ tAllStopped' = ReachedTarget(Servos, servoAngle')
    /\ pc' = "while"
    /\ lastEvent' = "advance"
    /\ UNCHANGED <<sServoNextPositionArray, servoStart, servoTarget,
                   stopRequested, movedServo>>

\* delay(20 ms); sServoArray[aServoIndex]->update()
update(aAdvanced) ==
    /\ pc = "update"
    /\ movedServo # NoServo
    /\ servoAngle' = UpdatedAngles({movedServo}, aAdvanced)
    /\ tAllStopped' = ReachedTarget({movedServo}, servoAngle')
    /\ pc' = "while"
    /\ lastEvent' = "advance"
    /\ UNCHANGED <<sServoNextPositionArray, servoStart, servoTarget,
                   stopRequested, movedServo>>

\* Mutant: the loop condition without its negation.
WhileNotStopped_Inverted ==
    /\ pc = "while"
    /\ IF ~tAllStopped
       THEN pc' = "idle" /\ movedServo' = NoServo /\ lastEvent' = "return"
       ELSE pc' = "poll" /\ UNCHANGED <<movedServo, lastEvent>>
    /\ UNCHANGED <<sServoNextPositionArray, servoVars, stopRequested, tAllStopped>>

\* } while (!updateAllServos());  and  } while (!...->update());
WhileNotStopped ==
    /\ pc = "while"
    /\ IF tAllStopped
       THEN pc' = "idle" /\ movedServo' = NoServo /\ lastEvent' = "return"
       ELSE pc' = "poll" /\ UNCHANGED <<movedServo, lastEvent>>
    /\ UNCHANGED <<sServoNextPositionArray, servoVars, stopRequested, tAllStopped>>

(***************************************************************************)
(* History of the calls made, kept beside the program's state.             *)
(***************************************************************************)
NoCall == [fn |-> "none", posture |-> <<>>, direction |-> 0, mirror |-> FALSE,
           writes |-> <<>>, before |-> ZeroBuffer]

Record(aFn, aPosture, aDirection, doMirror, aWrites) ==
    /\ call' = [fn |-> aFn, posture |-> aPosture, direction |-> aDirection,
                mirror |-> doMirror, writes |-> aWrites,
                before |-> sServoNextPositionArray]
    /\ writeLog' = writeLog \o aWrites
    /\ nCalls' = nCalls + 1
    /\ UNCHANGED <<indexChain, maskCall>>

\* One more call of transformOneServoIndex, on the result of the call before it.
CallTransformOneServoIndex(aServoIndexToTransform, aDirection, doMirror) ==
    /\ pc = "idle"
    /\ Len(indexChain) < MaxChain
    /\ indexChain # <<>> => aServoIndexToTransform = indexChain[Len(indexChain)].result
    /\ indexChain' = Append(indexChain,
                            [index |-> aServoIndexToTransform, direction |-> aDirection,
                             mirror |-> doMirror,
                             result |-> transformOneServoIndex(aServoIndexToTransform,
                                                               aDirection, doMirror)])
    /\ UNCHANGED <<sServoNextPositionArray, servoVars, loopVars,
                   nCalls, call, writeLog, maskCall>>

CallGetMirrorXorMask(aDirection) ==
    /\ pc = "idle"
    /\ maskCall' = <<aDirection, getMirrorXorMask(aDirection)>>
    /\ UNCHANGED <<sServoNextPositionArray, servoVars, loopVars,
                   nCalls, call, writeLog, indexChain>>

(***************************************************************************)
(* Initial states.                                                         *)
(***************************************************************************)
InitWith(aBuffer) ==
    /\ sServoNextPositionArray = aBuffer
    /\ servoAngle = [i \in Servos |-> StartAngle]
    /\ servoStart = [i \in Servos |-> StartAngle]
    /\ servoTarget = [i \in Servos |-> StartAngle]
    /\ stopRequested = FALSE
    /\ pc = "idle"
    /\ tAllStopped = TRUE
    /\ movedServo = NoServo
    /\ lastEvent = "none"
    /\ nCalls = 0
    /\ call = NoCall
    /\ writeLog = <<>>
    /\ indexChain = <<>>
    /\ maskCall = <<>>

Init == InitWith(ZeroBuffer)

(***************************************************************************)
(* Spec: the caller starts moves one after the other; each runs its loop   *)
(* until all servos have arrived or a stop is requested.                   *)
(***************************************************************************)
LoopStep ==
    \/ \E aStopCommand \in BOOLEAN : checkIRInput(aStopCommand)
    \/ ReturnIfStop
    \/ \E aAdvanced \in BOOLEAN : updateAllServos(aAdvanced)
    \/ \E aAdvanced \in BOOLEAN : update(aAdvanced)
    \/ WhileNotStopped

Next ==
    \/ \E p \in MovePostures, d \in Directions, m \in BOOLEAN :
          transformAndSetAllServos(p, d, m, TRUE) /\ UNCHANGED histVars
    \/ \E p \in MovePivots, d \in Directions, m \in BOOLEAN :
          transformAndSetPivotServos(p, d, m, TRUE) /\ UNCHANGED histVars
    \/ \E i \in MoveServos, a \in MoveDegrees :
          moveOneServoAndCheckInputAndWait(i, a) /\ UNCHANGED histVars
    \/ \E aStopCommand \in BOOLEAN : checkIRInput(aStopCommand) /\ UNCHANGED histVars
    \/ ReturnIfStop /\ UNCHANGED histVars
    \/ \E aAdvanced \in BOOLEAN : updateAllServos(aAdvanced) /\ UNCHANGED histVars
    \/ \E aAdvanced \in BOOLEAN : update(aAdvanced) /\ UNCHANGED histVars
    \/ WhileNotStopped /\ UNCHANGED histVars

Spec == Init /\ [][Next]_vars

\* The single thread of control keeps running the loop it is in.
FairSpec == Init /\ [][Next]_vars /\ WF_vars(LoopStep /\ UNCHANGED histVars)

(***************************************************************************)
(* TransformSpec: one call of one of the transformation routines, on every *)
(* input of the bounded input sets.                                        *)
(***************************************************************************)
InitTransform == InitWith(ZeroBuffer) \/ InitWith(PriorBuffer)

Fresh == nCalls = 0 /\ indexChain = <<>> /\ maskCall = <<>>

NextTransform ==
    \/ /\ Fresh
       /\ \E p \in Postures, d \in Directions, m \in BOOLEAN :
          /\ transformAndSetAllServos(p, d, m, FALSE)
          /\ Record("all", p, d, m, AllServosWrites(p, d, m))
    \/ /\ Fresh
       /\ \E p \in PivotPostures, d \in Directions, m \in BOOLEAN :
          /\ transformAndSetPivotServos(p, d, m, FALSE)
          /\ Record("pivot", p, d, m, PivotServosWrites(p, d, m))
    \/ /\ nCalls = 0 /\ maskCall = <<>>
       /\ \E i \in Servos, d \in Directions, m \in BOOLEAN :
          CallTransformOneServoIndex(i, d, m)
    \/ /\ Fresh
       /\ \E d \in 0 .. Uint8Max :
          CallGetMirrorXorMask(d)

TransformSpec == InitTransform /\ [][NextTransform]_vars

(***************************************************************************)
(* StageSpec: staging calls without a move, then one call that commits.    *)
(***************************************************************************)
NextStage ==
    \/ \E p \in StagePostures, d \in Directions, m \in BOOLEAN, aDoMove \in BOOLEAN :
          /\ nCalls < MaxStagingCalls \/ aDoMove
          /\ transformAndSetAllServos(p, d, m, aDoMove)
          /\ Record("all", p, d, m, AllServosWrites(p, d, m))
    \/ \E p \in StagePivots, d \in Directions, m \in BOOLEAN, aDoMove \in BOOLEAN :
          /\ nCalls < MaxStagingCalls \/ aDoMove
          /\ transformAndSetPivotServos(p, d, m, aDoMove)
          /\ Record("pivot", p, d, m, PivotServosWrites(p, d, m))

StageSpec == Init /\ [][NextStage]_vars

(***************************************************************************)
(* Claims about the transformation routines (TransformSpec).               *)
(***************************************************************************)
WriteIndices(aWrites) == {aWrites[k][1] : k \in 1 .. Len(aWrites)}

\* C1: one call of transformAndSetAllServos, for every direction 0..3 and
\* every mirror flag, makes 8 writes to 8 different slots in 0..7: the four
\* pivot roles land on four distinct even indices, and each leg's lift angle
\* lands on its pivot's index + 1.
C1_EachSlotWrittenOnce ==
    call.fn = "all" =>
        /\ Len(call.writes) = NUMBER_OF_SERVOS
        /\ WriteIndices(call.writes) = Servos
        /\ Cardinality({call.writes[2 * r - 1][1] : r \in 1 .. 4}) = 4
        /\ \A r \in 1 .. 4 :
              /\ call.writes[2 * r - 1][1] \in {0, 2, 4, 6}
              /\ call.writes[2 * r][1] = call.writes[2 * r - 1][1] + 1

C1_Witness ==
    /\ call.fn = "all"
    /\ call.mirror
    /\ call.direction = MOVE_DIRECTION_RIGHT
    /\ sServoNextPositionArray # call.before

\* C2: after transformAndSetAllServos, slot p = ((c + 2*d) mod 8) XOR m holds
\* the pivot angle of role c (as given without mirroring, 180 - angle with
\* mirroring) and slot p+1 that role's lift angle, with m = 0 without
\* mirroring and m = getMirrorXorMask(d) with it; pivots (180,1,135,30) land
\* on (0,2,4,6) as given for Forward unmirrored, and on (6,4,2,0) as
\* (0,179,45,150) for Forward mirrored.
C2_SlotOfRole ==
    call.fn = "all" =>
        /\ \A r \in 1 .. 4 :
              LET c == PivotRoles[r]
                  d == call.direction
                  m == IF call.mirror THEN getMirrorXorMask(d) ELSE 0
                  tSlot == BitXor((c + 2 * d) % 8, m)
              IN  /\ sServoNextPositionArray[tSlot] =
                         (IF call.mirror THEN 180 - call.posture[r] ELSE call.posture[r])
                  /\ sServoNextPositionArray[tSlot + 1] = call.posture[4 + r]
        /\ (SubSeq(call.posture, 1, 4) = <<180, 1, 135, 30>>
               /\ call.direction = MOVE_DIRECTION_FORWARD) =>
              IF call.mirror
              THEN /\ sServoNextPositionArray[6] = 0
                   /\ sServoNextPositionArray[4] = 179
                   /\ sServoNextPositionArray[2] = 45
                   /\ sServoNextPositionArray[0] = 150
              ELSE /\ sServoNextPositionArray[0] = 180
                   /\ sServoNextPositionArray[2] = 1
                   /\ sServoNextPositionArray[4] = 135
                   /\ sServoNextPositionArray[6] = 30

C2_Witness ==
    /\ call.fn = "all"
    /\ call.posture = TestPosture
    /\ call.direction = MOVE_DIRECTION_FORWARD
    /\ call.mirror
    /\ sServoNextPositionArray[6] = 0
    /\ sServoNextPositionArray[7] = 111

\* C3: getMirrorXorMask returns 0x2 for Left and Right, 0x6 for Forward and
\* Backward, and no other value than these two for any uint8_t direction.
C3_MirrorXorMask ==
    maskCall # <<>> =>
        /\ maskCall[2] \in {2, 6}
        /\ maskCall[1] \in {MOVE_DIRECTION_LEFT, MOVE_DIRECTION_RIGHT} => maskCall[2] = 2
        /\ maskCall[1] \in {MOVE_DIRECTION_FORWARD, MOVE_DIRECTION_BACKWARD} => maskCall[2] = 6

C3_Witness == maskCall = <<MOVE_DIRECTION_RIGHT, 2>>

\* C4: without mirroring the Backward transform maps every index i to
\* (i + 4) mod 8 and Forward maps it to itself, so two Backward transforms in
\* a row (also after a Forward one) give back the index they started from;
\* transformAndSetAllServos stages the pivots (0,2,4,6) on (4,6,0,2) for
\* Backward and on (0,2,4,6) for Forward, with the angles as given.
Unmirrored(aEntry, aDirection) == ~aEntry.mirror /\ aEntry.direction = aDirection

C4_BackwardIsHalfTurn ==
    /\ \A k \in 1 .. Len(indexChain) :
          /\ Unmirrored(indexChain[k], MOVE_DIRECTION_BACKWARD) =>
                indexChain[k].result = (indexChain[k].index + 4) % 8
          /\ Unmirrored(indexChain[k], MOVE_DIRECTION_FORWARD) =>
                indexChain[k].result = indexChain[k].index
          /\ (k > 1 /\ Unmirrored(indexChain[k], MOVE_DIRECTION_BACKWARD)
                    /\ Unmirrored(indexChain[k - 1], MOVE_DIRECTION_BACKWARD)) =>
                indexChain[k].result = indexChain[k - 1].index
          /\ (k > 2 /\ Unmirrored(indexChain[k], MOVE_DIRECTION_BACKWARD)
                    /\ Unmirrored(indexChain[k - 1], MOVE_DIRECTION_BACKWARD)
                    /\ Unmirrored(indexChain[k - 2], MOVE_DIRECTION_FORWARD)) =>
                indexChain[k].result = indexChain[k - 2].index
    /\ (call.fn = "all" /\ Unmirrored(call, MOVE_DIRECTION_BACKWARD)) =>
          /\ sServoNextPositionArray[4] = call.posture[1]
          /\ sServoNextPositionArray[6] = call.posture[2]
          /\ sServoNextPositionArray[0] = call.posture[3]
          /\ sServoNextPositionArray[2] = call.posture[4]
    /\ (call.fn = "all" /\ Unmirrored(call, MOVE_DIRECTION_FORWARD)) =>
          \A r \in 1 .. 4 : sServoNextPositionArray[PivotRoles[r]] = call.posture[r]

C4_Witness ==
    /\ Len(indexChain) = 3
    /\ Unmirrored(indexChain[1], MOVE_DIRECTION_FORWARD)
    /\ Unmirrored(indexChain[2], MOVE_DIRECTION_BACKWARD)
    /\ Unmirrored(indexChain[3], MOVE_DIRECTION_BACKWARD)
    /\ indexChain[1].index = FRONT_RIGHT_PIVOT
    /\ indexChain[2].result = BACK_LEFT_PIVOT
    /\ indexChain[3].result = FRONT_RIGHT_PIVOT

C8_PivotPathAgrees ==
    call.fn = "pivot" =>
        LET tAll == AllServosWrites(call.posture \o <<0, 0, 0, 0>>,
                                    call.direction, call.mirror)
        IN  /\ Len(call.writes) = 4
            /\ \A r \in 1 .. 4 :
                  /\ call.writes[r] = tAll[2 * r - 1]
                  /\ sServoNextPositionArray[tAll[2 * r - 1][1]] = tAll[2 * r - 1][2]
            /\ \A i \in {1, 3, 5, 7} : sServoNextPositionArray[i] = call.before[i]

C8_Witness ==
    /\ call.fn = "pivot"
    /\ call.mirror
    /\ call.direction = MOVE_DIRECTION_BACKWARD
    /\ call.before = PriorBuffer
    /\ call.posture = <<180, 1, 135, 30>>
    /\ sServoNextPositionArray[2] = 0
    /\ sServoNextPositionArray[3] = PriorBuffer[3]

(***************************************************************************)
(* Claim about the staging buffer (StageSpec).                             *)
(***************************************************************************)
\* The value of the last write to slot aIndex in aLog, aDefault without one.
RECURSIVE LastWriteTo(_, _, _)
LastWriteTo(aLog, aIndex, aDefault) ==
    IF aLog = <<>> THEN aDefault
    ELSE IF aLog[Len(aLog)][1] = aIndex THEN aLog[Len(aLog)][2]
    ELSE LastWriteTo(SubSeq(aLog, 1, Len(aLog) - 1), aIndex, aDefault)

\* C9: after any sequence of staging calls each slot of the staging buffer
\* holds the value of the most recent write to it, a slot no call has written
\* keeps the value it had, and the move started by a commit takes exactly
\* these values as its end angles.
C9_LastWriteWins ==
    /\ \A i \in Servos :
          sServoNextPositionArray[i] = LastWriteTo(writeLog, i, ZeroBuffer[i])
    /\ pc # "idle" =>
          \A i \in Servos : servoTarget[i] = LastWriteTo(writeLog, i, ZeroBuffer[i])

C9_Witness ==
    /\ nCalls = 3
    /\ pc = "poll"
    /\ call.fn = "pivot"
    /\ Len(writeLog) = 16
    /\ servoTarget[1] = 111
    /\ servoTarget[0] = 10
    /\ \E k \in 1 .. 8 : writeLog[k] = <<0, 180>>
    /\ \E k \in 9 .. 12 : writeLog[k] = <<0, 170>>

(***************************************************************************)
(* Claims about the move loops (Spec, FairSpec).                           *)
(***************************************************************************)
InLoop == pc # "idle"

LoopServos == IF movedServo = NoServo THEN Servos ELSE {movedServo}

\* C6: when the stop condition is set while a move loop runs, the loop
\* returns at its next test without advancing any servo: every servo keeps
\* the angle it has, and the staging buffer is left as it is.
C6_StopLeavesServosWhereTheyAre ==
    [][(InLoop /\ stopRequested') =>
            /\ servoAngle' = servoAngle
            /\ sServoNextPositionArray' = sServoNextPositionArray
            /\ pc = "test" => pc' = "idle"
            /\ pc' \in {"test", "idle"}]_vars

C6_Witness ==
    /\ pc = "idle"
    /\ lastEvent = "test"
    /\ stopRequested
    /\ \E i \in Servos : /\ servoAngle[i] # servoStart[i]
                         /\ servoAngle[i] # servoTarget[i]
                         /\ sServoNextPositionArray[i] = servoTarget[i]

\* C7: a move loop returns only when all its servos have reported arrival or
\* the stop condition is set, and once either is the case it does return;
\* there is no other way out of the loop.
C7_LoopReturnsWhenAndOnlyWhen ==
    /\ (InLoop /\ (stopRequested
                      \/ \A i \in LoopServos : servoAngle[i] = servoTarget[i]))
          ~> (pc = "idle")
    /\ [][(InLoop /\ pc' = "idle") =>
             \/ stopRequested
             \/ \A i \in LoopServos : servoAngle[i] = servoTarget[i]]_vars

C7_Witness ==
    /\ pc = "idle"
    /\ lastEvent = "return"
    /\ ~stopRequested
    /\ servoAngle = servoTarget
    /\ \E i \in Servos : servoStart[i] # servoTarget[i]

\* C10 as stated: every advance and every return to the caller as completed
\* comes directly after a test of the stop condition.
C10_StopTestedBeforeReturn ==
    [][(lastEvent' # lastEvent /\ lastEvent' \in {"advance", "return"}) =>
            lastEvent = "test"]_vars

\* C10 amended: the stop condition is tested directly after every poll, every
\* advance comes directly after a test that found no stop (so the first poll
\* and test come before the first advance), an advance that does not complete
\* the move is followed by the next poll, and the loop returns as completed
\* directly after the advance that reported arrival, without another test.
C10_StopTestedAfterEveryPoll ==
    [][lastEvent' # lastEvent =>
            /\ lastEvent = "start" => lastEvent' = "poll"
            /\ lastEvent = "poll" => lastEvent' = "test"
            /\ lastEvent' = "advance" => (lastEvent = "test" /\ ~stopRequested)
            /\ lastEvent = "advance" => lastEvent' \in {"poll", "return"}
            /\ lastEvent' = "return" => (lastEvent = "advance" /\ tAllStopped)]_vars

C10_Witness ==
    /\ pc = "idle"
    /\ lastEvent = "return"
    /\ tAllStopped
    /\ \E i \in Servos : servoStart[i] # servoAngle[i]

====
